---- MODULE Spec2Model ----
(***************************************************************************)
(* Order / payment core of the laundro backend                             *)
(* (laundry-management-backend/src/controllers/orderController.js,         *)
(*  paymentController.js, models/Order.js, models/Payment.js).             *)
(*                                                                         *)
(* The store is MongoDB accessed through Mongoose.  Every awaited store    *)
(* call of a handler is one atomic step; handlers of different requests    *)
(* interleave between their awaited calls.                                 *)
(*   - Model.findOne / findById : atomic read of one document.             *)
(*   - Model.findOneAndUpdate   : atomic conditional update of one         *)
(*     document; runs no pre('save') hook.                                 *)
(*   - doc.save() on a loaded document : runs the pre('save') hook on the  *)
(*     in-memory copy, then writes the paths whose in-memory value differs *)
(*     from the loaded one, filtered by _id only.                          *)
(*   - Model.create : insert; a unique index rejects a duplicate (E11000). *)
(* Amounts are whole currency units.                                       *)
(***************************************************************************)
EXTENDS Integers, Sequences, FiniteSets, TLC

\* ------------------------------------------------------------------ bounds
MaxConc    == 2   \* request handlers in flight at once (Spec)
MaxStarted == 4   \* requests issued in one behaviour (Spec)
MaxOrders  == 1   \* orders created in one behaviour (Spec)
MaxAmount  == 2   \* largest amount / total a request carries
MaxBatch   == 3   \* concurrent RecordPayment requests (SpecPay)
MaxTotal   == 3   \* largest total of the order the batch pays (SpecPay)
NumPins    == 2   \* distinct pickup PINs generatePin may draw
NumSalts   == 1   \* distinct salts bcrypt.genSalt may draw
GateRequests == 3 \* requests issued in one behaviour (SpecGate)
AuditRequests == 3 \* requests issued in one behaviour (SpecAudit)
TwoRequests == 4  \* requests issued in one behaviour (SpecTwo)

\* ------------------------------------------------------------- enumerations
CREATED    == "CREATED"
PROCESSING == "PROCESSING"
READY      == "READY"
COLLECTED  == "COLLECTED"
OrderStatus == {CREATED, PROCESSING, READY, COLLECTED}

\* position of a status in the lifecycle CREATED -> ... -> COLLECTED
Rank(s) == CASE s = CREATED -> 0 [] s = PROCESSING -> 1 [] s = READY -> 2 [] s = COLLECTED -> 3

Shops == {"shopA", "shopB"}
Customers == {"custA", "custB"}
\* the tenant each customer document belongs to
CustomerShop(c) == IF c = "custA" THEN "shopA" ELSE "shopB"
\* a customer id no Customer document has
NoCustomer == "none"

\* req.user.shopId of a principal that belongs to no shop
NoShop == ""

\* UserRole
ADMIN    == "ADMIN"
OWNER    == "OWNER"
EMPLOYEE == "EMPLOYEE"
UserRole == {ADMIN, OWNER, EMPLOYEE}

\* SubscriptionStatus
ACTIVE    == "ACTIVE"
GRACE     == "GRACE"
SUSPENDED == "SUSPENDED"
SubscriptionStatus == {ACTIVE, GRACE, SUSPENDED}
\* what Shop.findById yields: the subscriptionStatus of the document, no document,
\* or a rejected promise
MISSING == "MISSING"
LOOKUP_ERROR == "ERROR"
ShopLookup == SubscriptionStatus \cup {MISSING, LOOKUP_ERROR}

NoKey == ""
Keys == {"k1"}
Pins == 1..NumPins
Salts == 1..NumSalts

\* ------------------------------------------------------------- pickup PIN
NoHash == [salt |-> 0, digest |-> 0]
\* bcrypt digest of a pin under a salt (one-way; injective on the bounded domain)
Digest(salt, pin) == salt * (NumPins + 1) + pin
\* hashPin: bcrypt.hash(pin, salt): the salt travels with the digest
hashPin(pin, salt) == [salt |-> salt, digest |-> Digest(salt, pin)]
\* verifyPin: bcrypt.compare(pin, hash): re-hash under the stored salt
verifyPin(pin, hash) == Digest(hash.salt, pin) = hash.digest

\* ------------------------------------------------------------------- state
VARIABLES
  orders,    \* sequence of Order documents; an order's _id is its index
  payments,  \* sequence of Payment documents, in insertion order
  req,       \* request handlers: slot -> handler state
  started,   \* number of requests issued so far
  collects,  \* per order: number of CollectOrder requests that succeeded
  issuePaid, \* amountPaid of order 1 when a batch of requests was issued (SpecPay)
  shops,     \* Shop collection: per shop, what Shop.findById yields
  users,     \* User collection: the principals protect attaches to requests
  ignoreUndefined, \* the store drops a filter field whose value is undefined (else: null)
  auditLog,  \* AuditLog collection: per action, the number of documents
  auditMayFail \* AuditLog.create may reject (the audit store is not always reachable)

vars == <<orders, payments, req, started, collects, issuePaid, shops, users, ignoreUndefined, auditLog, auditMayFail>>

IdleReq == [op |-> "none", pc |-> "idle", shop |-> "", oid |-> 0, customer |-> "",
            amount |-> 0, total |-> 0, pin |-> 0, key |-> NoKey,
            wasCreated |-> FALSE, snapPaid |-> 0, snapBal |-> 0, snapHash |-> NoHash,
            applied |-> FALSE, resp |-> "", respPin |-> 0, nan |-> FALSE]

\* a handler that has answered: the request line (operation, caller, order, amount, pin)
\* and the answer remain, the handler's locals are gone
Done(q, resp) == [q EXCEPT !.pc = "done", !.resp = resp, !.customer = "", !.total = 0,
                           !.amount = IF q.op = "pay" THEN q.amount ELSE 0,
                           !.pin = IF q.op = "collect" THEN q.pin ELSE 0,
                           !.wasCreated = FALSE, !.snapPaid = 0, !.snapBal = 0,
                           !.snapHash = NoHash]

\* the order ids requests name: those of the stored orders, and of the orders to come
OrderIdsAsked == 1..(IF Len(orders) > MaxOrders THEN Len(orders) ELSE MaxOrders)

\* a document with this _id is stored
Exists(oid) == oid \in 1..Len(orders)
\* mutant of Found: the query filters by _id alone
FoundById(oid, shop) == Exists(oid)
\* a filter { shopId: user.shopId } against a document's shopId. Every document has a
\* shopId; for a principal without one the filter value is undefined, which the store
\* either drops from the filter or reads as null
TenantMatch(docShop, shop) == IF shop = NoShop THEN ignoreUndefined ELSE docShop = shop

\* Order.findOne({ _id, shopId }): the document, visible to its tenant only
Found(oid, shop) == Exists(oid) /\ TenantMatch(orders[oid].shopId, shop)

\* ----------------------------------------------------------------- audit
\* the actions the handlers log
CREATE_ORDER   == "CREATE_ORDER"
RECORD_PAYMENT == "RECORD_PAYMENT"
MARK_READY     == "MARK_READY"
COLLECT_ORDER  == "COLLECT_ORDER"
FAILED_COLLECTION_ATTEMPT == "FAILED_COLLECTION_ATTEMPT"
UPDATE_SHOP_STATUS == "UPDATE_SHOP_STATUS"
AuditActions == {CREATE_ORDER, RECORD_PAYMENT, MARK_READY, COLLECT_ORDER,
                 FAILED_COLLECTION_ATTEMPT, UPDATE_SHOP_STATUS}
\* the empty AuditLog collection
NoAudit == [a \in AuditActions |-> 0]
\* what AuditLog.create may do: TRUE it inserts, FALSE it rejects
SinkOutcomes == IF auditMayFail THEN BOOLEAN ELSE {TRUE}

\* mutant of logAudit: a rejected AuditLog.create is thrown on to the caller
logAuditThrows(log, action, ok) ==
  [log |-> IF ok THEN [log EXCEPT ![action] = @ + 1] ELSE log, threw |-> ~ok]

\* logAudit: AuditLog.create inside try/catch; a rejection is logged to the console
\* and swallowed. Yields the collection after the call and whether the call threw.
\* No handler reads the collection, so the call is taken together with the store
\* call that precedes it.
logAudit(log, action, ok) ==
  [log |-> IF ok THEN [log EXCEPT ![action] = @ + 1] ELSE log, threw |-> FALSE]

\* one owner per shop
Staff == {[role |-> OWNER, shopId |-> s] : s \in Shops}

Init ==
  /\ orders = <<>>
  /\ payments = <<>>
  /\ req = [r \in 1..MaxConc |-> IdleReq]
  /\ started = 0
  /\ collects = <<>>
  /\ issuePaid = 0
  /\ shops = [s \in Shops |-> ACTIVE]
  /\ users = Staff
  /\ ignoreUndefined = FALSE
  /\ auditLog = NoAudit
  /\ auditMayFail = FALSE

\* ------------------------------------------------------- subscription gate
\* mutant of checkSubscription: a shop in its grace period is let through
checkSubscriptionGraceOpen(user, method) ==
  IF user.role = ADMIN THEN "next"
  ELSE IF user.shopId # NoShop
  THEN IF shops[user.shopId] = LOOKUP_ERROR THEN "LookupFailed"
       ELSE IF shops[user.shopId] = MISSING THEN "ShopNotFound"
       ELSE IF shops[user.shopId] = SUSPENDED THEN "ShopSuspended"
       ELSE "next"
  ELSE "next"

\* checkSubscription: "next" when the request goes on, else the error it is answered
\* with. A rejected Shop.findById leaves the middleware before any next().
checkSubscription(user, method) ==
  IF user.role = ADMIN THEN "next"
  ELSE IF user.shopId # NoShop
  THEN IF shops[user.shopId] = LOOKUP_ERROR THEN "LookupFailed"
       ELSE IF shops[user.shopId] = MISSING THEN "ShopNotFound"
       ELSE IF shops[user.shopId] = SUSPENDED THEN "ShopSuspended"
       ELSE IF shops[user.shopId] = GRACE
            THEN IF method = "GET" THEN "next" ELSE "GracePeriod"
       ELSE "next"
  ELSE "next"

\* authorize(UserRole.OWNER, UserRole.EMPLOYEE)
authorize(user) == user.role \in {OWNER, EMPLOYEE}

\* the request passes the middleware chain and enters the handler
Admitted(user, method) == checkSubscription(user, method) = "next" /\ authorize(user)

\* the middleware chain of a route: checkSubscription, authorize, then the handler,
\* which takes request q to state checked
Routed(user, method, q, checked) ==
  IF checkSubscription(user, method) # "next" THEN Done(q, checkSubscription(user, method))
  ELSE IF ~authorize(user) THEN Done(q, "Forbidden")
  ELSE checked

\* Handler slots are interchangeable: a new request takes the lowest slot that
\* is not running a handler.
Free(r) ==
  /\ req[r].pc \in {"idle", "done"}
  /\ \A x \in 1..(r - 1) : req[x].pc \notin {"idle", "done"}
  /\ started < MaxStarted

\* a request arrives on a free handler slot and runs up to its first awaited store call,
\* which leaves the handler in state q
IssueLogged(r, q, log) ==
  /\ Free(r)
  /\ req' = [req EXCEPT ![r] = q]
  /\ started' = started + 1
  /\ auditLog' = log
  /\ UNCHANGED <<orders, payments, collects, issuePaid, shops, users, ignoreUndefined, auditMayFail>>

\* the same, for a request that logs nothing before its first awaited store call
Issue(r, q) == IssueLogged(r, q, auditLog)

\* ------------------------------------------------------------ RecordPayment
\* the request POST /payments carries
PayRequest(shop, oid, amount, key) ==
  [IdleReq EXCEPT !.op = "pay", !.pc = "read", !.shop = shop, !.oid = oid,
                  !.amount = amount, !.key = key]

\* the amount field of a request body: a numeric value, or text that is no number
RawAmounts == {[numeric |-> TRUE, value |-> a] : a \in (-1)..MaxAmount}
              \cup {[numeric |-> FALSE, value |-> 0]}
\* Number(amount): the value, or NaN
Number(raw) == [nan |-> ~raw.numeric, value |-> IF raw.numeric THEN raw.value ELSE 0]

\* mutant of AmountRejected: zero is let through
AmountRejectedNegativeOnly(q) == q.nan \/ q.amount < 0

\* isNaN(paymentAmount) || paymentAmount <= 0
AmountRejected(q) == q.nan \/ q.amount <= 0

\* amount validation, Order.findOne, status check, balance check
PayChecked(q) ==
  IF AmountRejected(q) THEN Done(q, "InvalidAmount")
  ELSE IF ~Found(q.oid, q.shop) THEN Done(q, "OrderNotFound")
  ELSE IF orders[q.oid].status = COLLECTED THEN Done(q, "OrderCollected")
  ELSE IF q.amount > orders[q.oid].totalAmount - orders[q.oid].amountPaid
       THEN Done(q, "ExceedsBalance")
  ELSE [q EXCEPT !.pc = IF q.key # NoKey THEN "idem" ELSE "update",
                 !.wasCreated = (orders[q.oid].status = CREATED)]

\* POST /payments arrives and runs to the end of its first read
PayRead(r) ==
  \E user \in users, oid \in OrderIdsAsked, raw \in RawAmounts, key \in Keys \cup {NoKey} :
    LET q == [PayRequest(user.shopId, oid, Number(raw).value, key)
                EXCEPT !.nan = Number(raw).nan]
    IN Issue(r, Routed(user, "POST", q, PayChecked(q)))

\* a RecordPayment request that was issued earlier performs its first read
PayReadIssued(r) ==
  /\ req[r].op = "pay" /\ req[r].pc = "read"
  /\ req' = [req EXCEPT ![r] = PayChecked(req[r])]
  /\ UNCHANGED <<orders, payments, started, collects, issuePaid, shops, users, ignoreUndefined, auditLog, auditMayFail>>

\* Payment.findOne({ offlineId }).populate('orderId'): the payment with this key, if any
PaymentWithKey(key) == {i \in 1..Len(payments) : payments[i].offlineId = key}

\* idempotency check: an existing payment with the key, of an order of the caller's shop
\* (user.shopId.toString() throws for a principal without a shop)
PayIdem(r) ==
  LET q == req[r] IN
  /\ q.op = "pay" /\ q.pc = "idem"
  /\ req' = [req EXCEPT ![r] =
       IF PaymentWithKey(q.key) # {} /\ q.shop = NoShop THEN Done(q, "ServerError")
       ELSE IF \E i \in PaymentWithKey(q.key) : orders[payments[i].orderId].shopId = q.shop
       THEN Done(q, "PaymentSynced")
       ELSE [q EXCEPT !.pc = "update"]]
  /\ UNCHANGED <<orders, payments, started, collects, issuePaid, shops, users, ignoreUndefined, auditLog, auditMayFail>>

\* mutant of PayFilter: the update is not bounded by totalAmount
PayFilterUnbounded(q) ==
  /\ Found(q.oid, q.shop)
  /\ orders[q.oid].status # COLLECTED

\* mutant of PayFilter: the update also requires the status the handler read
PayFilterSameStatus(q) ==
  /\ Found(q.oid, q.shop)
  /\ orders[q.oid].status # COLLECTED
  /\ q.wasCreated => orders[q.oid].status = CREATED
  /\ orders[q.oid].amountPaid + q.amount <= orders[q.oid].totalAmount

\* mutant of PayFilter: the bound is tested with a strict comparison
PayFilterStrict(q) ==
  /\ Found(q.oid, q.shop)
  /\ orders[q.oid].status # COLLECTED
  /\ orders[q.oid].amountPaid + q.amount < orders[q.oid].totalAmount

\* the filter of the conditional update
PayFilter(q) ==
  /\ Found(q.oid, q.shop)
  /\ orders[q.oid].status # COLLECTED
  /\ orders[q.oid].amountPaid + q.amount <= orders[q.oid].totalAmount

\* mutant of PayApply: the payment is taken off totalAmount
PayApplyOffTotal(o, q) ==
  [o EXCEPT !.totalAmount = o.totalAmount - q.amount,
            !.status = IF q.wasCreated THEN PROCESSING ELSE o.status]

\* the update document: $inc amountPaid, $set status when the handler read CREATED
PayApply(o, q) ==
  [o EXCEPT !.amountPaid = o.amountPaid + q.amount,
            !.status = IF q.wasCreated THEN PROCESSING ELSE o.status]

\* mutant of PayUpdate: the filter has no _id, the first order of the shop that the
\* payment fits is updated
PayUpdateFirstOfShop(r) ==
  LET q == req[r]
      fits == {o \in 1..Len(orders) : PayFilter([q EXCEPT !.oid = o])} IN
  /\ q.op = "pay" /\ q.pc = "update"
  /\ IF fits # {}
     THEN /\ orders' = [orders EXCEPT ![CHOOSE o \in fits : \A x \in fits : o <= x] =
                          PayApply(@, q)]
          /\ req' = [req EXCEPT ![r] = [q EXCEPT !.pc = "insert", !.applied = TRUE]]
     ELSE /\ orders' = orders
          /\ req' = [req EXCEPT ![r] = [q EXCEPT !.pc = "recheck"]]
  /\ UNCHANGED <<payments, started, collects, issuePaid, shops, users, ignoreUndefined, auditLog, auditMayFail>>

\* Order.findOneAndUpdate(filter, update)
PayUpdate(r) ==
  LET q == req[r] IN
  /\ q.op = "pay" /\ q.pc = "update"
  /\ IF PayFilter(q)
     THEN /\ orders' = [orders EXCEPT ![q.oid] = PayApply(orders[q.oid], q)]
          /\ req' = [req EXCEPT ![r] = [q EXCEPT !.pc = "insert", !.applied = TRUE]]
     ELSE /\ orders' = orders
          /\ req' = [req EXCEPT ![r] = [q EXCEPT !.pc = "recheck"]]
  /\ UNCHANGED <<payments, started, collects, issuePaid, shops, users, ignoreUndefined, auditLog, auditMayFail>>

\* mutant of PayRecheck: the rejected update is tried again
PayRecheckRetry(r) ==
  /\ req[r].op = "pay" /\ req[r].pc = "recheck"
  /\ req' = [req EXCEPT ![r] = [req[r] EXCEPT !.pc = "update"]]
  /\ UNCHANGED <<orders, payments, started, collects, issuePaid, shops, users, ignoreUndefined, auditLog, auditMayFail>>

\* the update matched nothing: Order.findById and classify
PayRecheck(r) ==
  LET q == req[r] IN
  /\ q.op = "pay" /\ q.pc = "recheck"
  /\ req' = [req EXCEPT ![r] =
       IF ~Exists(q.oid) THEN Done(q, "OrderNotFound")
       ELSE IF orders[q.oid].status = COLLECTED THEN Done(q, "OrderCollected")
       ELSE IF q.amount > orders[q.oid].totalAmount - orders[q.oid].amountPaid
            THEN Done(q, "ExceedsBalance")
       ELSE Done(q, "Conflict")]
  /\ UNCHANGED <<orders, payments, started, collects, issuePaid, shops, users, ignoreUndefined, auditLog, auditMayFail>>

\* Payment.create: the unique index on offlineId rejects a second document with the key;
\* then logAudit and the response
PayInsert(r) ==
  LET q == req[r] IN
  /\ q.op = "pay" /\ q.pc = "insert"
  /\ IF q.key # NoKey /\ PaymentWithKey(q.key) # {}
     THEN /\ payments' = payments
          /\ req' = [req EXCEPT ![r] = Done(q, "DuplicateKey")]
          /\ auditLog' = auditLog
     ELSE /\ payments' = Append(payments, [orderId |-> q.oid, amount |-> q.amount,
                                           offlineId |-> q.key])
          /\ \E ok \in SinkOutcomes :
               LET a == logAudit(auditLog, RECORD_PAYMENT, ok) IN
               /\ auditLog' = a.log
               /\ req' = [req EXCEPT ![r] = Done(q, IF a.threw THEN "ServerError"
                                                    ELSE "PaymentRecorded")]
  /\ UNCHANGED <<orders, started, collects, issuePaid, shops, users, ignoreUndefined, auditMayFail>>

\* --------------------------------------------------------------- CreateOrder
\* the request POST /orders carries (the route validator lets any numeric amount through)
CreateRequest(shop, c, total, paid, key) ==
  [IdleReq EXCEPT !.op = "create", !.pc = "read", !.shop = shop, !.customer = c,
                  !.total = total, !.amount = paid, !.key = key]

\* Order.findOne({ offlineId, shopId }): the caller's order with this key, if any
OrderWithKey(key, shop) ==
  {i \in 1..Len(orders) : orders[i].offlineId = key /\ TenantMatch(orders[i].shopId, shop)}

\* mutant of CustomerFound: the query filters by _id alone
CustomerFoundById(c, shop) == c \in Customers

\* Customer.findOne({ _id: customerId, shopId: user.shopId })
CustomerFound(c, shop) == c \in Customers /\ TenantMatch(CustomerShop(c), shop)

\* customer lookup in the caller's shop, then the idempotency check
CreateChecked(q) ==
  IF ~CustomerFound(q.customer, q.shop) THEN Done(q, "CustomerNotFound")
  ELSE IF q.key # NoKey /\ OrderWithKey(q.key, q.shop) # {}
       THEN Done([q EXCEPT !.oid = CHOOSE i \in OrderWithKey(q.key, q.shop) : TRUE],
                 "OrderSynced")
  ELSE [q EXCEPT !.pc = "order"]

\* POST /orders arrives and runs to the end of its reads
CreateRead(r) ==
  /\ Len(orders) + Cardinality({x \in DOMAIN req : req[x].op = "create" /\ req[x].pc # "done"})
       < MaxOrders
  /\ \E user \in users, c \in Customers \cup {NoCustomer}, total \in 0..MaxAmount,
        paid \in (-1)..MaxAmount, key \in Keys \cup {NoKey} :
       LET q == CreateRequest(user.shopId, c, total, paid, key)
       IN Issue(r, Routed(user, "POST", q, CreateChecked(q)))

\* OrderSchema validators: totalAmount min 0, amountPaid min 0
OrderValid(total, paid) == total >= 0 /\ paid >= 0

\* OrderSchema.pre('save'): balance recomputed from the in-memory document
PreSaveBalance(total, paid) == total - paid

\* mutant of NewOrder: the status is the schema default whatever was paid
NewOrderDefaultStatus(q) ==
  [shopId |-> q.shop, customerId |-> q.customer,
   status |-> CREATED,
   totalAmount |-> q.total, amountPaid |-> q.amount,
   balance |-> q.total - q.amount,
   pickupPinHash |-> NoHash, collectedBy |-> "", collectedAt |-> 0,
   offlineId |-> q.key]

\* the document Order.create inserts
NewOrder(q) ==
  [shopId |-> q.shop, customerId |-> q.customer,
   status |-> IF q.amount > 0 THEN PROCESSING ELSE CREATED,
   totalAmount |-> q.total, amountPaid |-> q.amount,
   balance |-> PreSaveBalance(q.total, q.amount),
   pickupPinHash |-> NoHash, collectedBy |-> "", collectedAt |-> 0,
   offlineId |-> q.key]

\* the sub-id the initial payment carries
PayKey(key) == IF key = NoKey THEN NoKey ELSE key \o "_pay"

\* a CreateOrder request that was issued earlier performs its reads
CreateReadIssued(r) ==
  /\ req[r].op = "create" /\ req[r].pc = "read"
  /\ req' = [req EXCEPT ![r] = CreateChecked(req[r])]
  /\ UNCHANGED <<orders, payments, started, collects, issuePaid, shops, users, ignoreUndefined, auditLog, auditMayFail>>

\* mutant of InSession: the document is inserted outside the transaction
NoSession(store, doc) == Append(store, doc)

\* Model.create([doc], { session }): the collection other operations read, after the
\* call. The document stays in the transaction until it commits.
InSession(store, doc) == store

\* the initial payment document
InitialPayment(q, oid) == [orderId |-> oid, amount |-> q.amount, offlineId |-> PayKey(q.key)]

\* one collect counter per order document
Counters(ords) == [i \in 1..Len(ords) |-> IF i <= Len(collects) THEN collects[i] ELSE 0]

\* open transactions that hold an uncommitted order with this key
StagedOrderKey(r, key) ==
  \E x \in DOMAIN req : x # r /\ req[x].op = "create" /\ req[x].pc \in {"payment", "commit"}
                        /\ req[x].key = key

\* startTransaction, Order.create in the session. A validation error, a key the unique
\* index already holds, or a key another open transaction has written makes the call
\* throw: abortTransaction, and the error is the answer
CreateOrderInsert(r) ==
  LET q == req[r] IN
  /\ q.op = "create" /\ q.pc = "order"
  /\ IF ~OrderValid(q.total, q.amount) \/ q.shop = NoShop
     THEN /\ req' = [req EXCEPT ![r] = Done(q, "ValidationError")]
          /\ orders' = orders
     ELSE IF q.key # NoKey /\ \E i \in 1..Len(orders) : orders[i].offlineId = q.key
     THEN /\ req' = [req EXCEPT ![r] = Done(q, "DuplicateKey")]
          /\ orders' = orders
     ELSE IF q.key # NoKey /\ StagedOrderKey(r, q.key)
     THEN /\ req' = [req EXCEPT ![r] = Done(q, "WriteConflict")]
          /\ orders' = orders
     ELSE /\ req' = [req EXCEPT ![r] = [q EXCEPT !.pc = IF q.amount > 0 THEN "payment"
                                                        ELSE "commit"]]
          /\ orders' = InSession(orders, NewOrder(q))
  /\ collects' = Counters(orders')
  /\ UNCHANGED <<payments, started, issuePaid, shops, users, ignoreUndefined, auditLog, auditMayFail>>

\* Payment.create in the session; a key the unique index already holds makes it throw:
\* abortTransaction, and the error is the answer
CreatePaymentInsert(r) ==
  LET q == req[r] IN
  /\ q.op = "create" /\ q.pc = "payment"
  /\ IF q.key # NoKey /\ PaymentWithKey(PayKey(q.key)) # {}
     THEN /\ req' = [req EXCEPT ![r] = Done(q, "DuplicateKey")]
          /\ payments' = payments
     ELSE /\ req' = [req EXCEPT ![r] = [q EXCEPT !.pc = "commit"]]
          /\ payments' = InSession(payments, InitialPayment(q, Len(orders) + 1))
  /\ UNCHANGED <<orders, started, collects, issuePaid, shops, users, ignoreUndefined, auditLog, auditMayFail>>

\* the audit calls of createOrder, in their own try/catch: RECORD_PAYMENT when an
\* initial payment was made, then CREATE_ORDER; whatever they throw is swallowed
CreateAudit(log, q, okPay, okOrder) ==
  logAudit(IF q.amount > 0 THEN logAudit(log, RECORD_PAYMENT, okPay).log ELSE log,
           CREATE_ORDER, okOrder).log

\* commitTransaction: the order and its initial payment become visible together;
\* then the audit calls and the response
CreateCommit(r) ==
  LET q == req[r]
      oid == Len(orders) + 1 IN
  /\ q.op = "create" /\ q.pc = "commit"
  /\ orders' = Append(orders, NewOrder(q))
  /\ collects' = Counters(orders')
  /\ payments' = IF q.amount > 0 THEN Append(payments, InitialPayment(q, oid)) ELSE payments
  /\ \E okPay \in SinkOutcomes, okOrder \in SinkOutcomes :
       auditLog' = CreateAudit(auditLog, q, okPay, okOrder)
  /\ req' = [req EXCEPT ![r] = Done([q EXCEPT !.oid = oid], "OrderCreated")]
  /\ UNCHANGED <<started, issuePaid, shops, users, ignoreUndefined, auditMayFail>>

\* ----------------------------------------------------------------- MarkReady
\* the request PUT /orders/:id/ready carries
ReadyRequest(shop, oid) ==
  [IdleReq EXCEPT !.op = "ready", !.pc = "read", !.shop = shop, !.oid = oid]

\* Order.findOne and the status check; the loaded document stays in memory
ReadyChecked(q) ==
  IF ~Found(q.oid, q.shop) THEN Done(q, "OrderNotFound")
  ELSE IF orders[q.oid].status \notin {PROCESSING, CREATED}
       THEN Done(q, "InvalidTransition")
  ELSE [q EXCEPT !.pc = "save", !.snapPaid = orders[q.oid].amountPaid,
                 !.snapBal = orders[q.oid].balance]

\* PUT /orders/:id/ready arrives and runs to the end of its read
ReadyRead(r) ==
  \E user \in users, oid \in OrderIdsAsked :
    LET q == ReadyRequest(user.shopId, oid)
    IN Issue(r, Routed(user, "PUT", q, ReadyChecked(q)))

\* doc.save(): the stored balance after the write. The hook recomputes balance from the
\* loaded amountPaid; the path is written only when that differs from the loaded balance
SavedBalance(o, q) ==
  IF PreSaveBalance(o.totalAmount, q.snapPaid) # q.snapBal
  THEN PreSaveBalance(o.totalAmount, q.snapPaid)
  ELSE o.balance

\* mutant of ReadyWrite: save() writes the whole loaded document back
ReadyWriteWholeDocument(o, q, hash) ==
  [o EXCEPT !.status = READY, !.pickupPinHash = hash, !.amountPaid = q.snapPaid,
            !.balance = PreSaveBalance(o.totalAmount, q.snapPaid)]

\* the write of markReady's order.save(): status, pickupPinHash and a modified balance
ReadyWrite(o, q, hash) ==
  [o EXCEPT !.status = READY, !.pickupPinHash = hash, !.balance = SavedBalance(o, q)]

\* the body of markReady's response: the saved order document and a message; plainPin
\* is not part of it
ReadyResult(o, plainPin) == [data |-> o]
\* the plaintext PIN a response body carries, 0 when it carries none
ResultPin(body) == IF "pin" \in DOMAIN body THEN body.pin ELSE 0

\* generatePin, hashPin, order.save(), logAudit and the response
ReadySave(r) ==
  LET q == req[r] IN
  /\ q.op = "ready" /\ q.pc = "save"
  /\ \E pin \in Pins, salt \in Salts, ok \in SinkOutcomes :
       LET a == logAudit(auditLog, MARK_READY, ok) IN
       /\ orders' = [orders EXCEPT ![q.oid] = ReadyWrite(orders[q.oid], q, hashPin(pin, salt))]
       /\ auditLog' = a.log
       /\ req' = [req EXCEPT ![r] =
            IF a.threw THEN Done(q, "ServerError")
            ELSE Done([q EXCEPT !.respPin = ResultPin(ReadyResult(orders'[q.oid], pin))],
                      "MarkedReady")]
  /\ UNCHANGED <<payments, started, collects, issuePaid, shops, users, ignoreUndefined, auditMayFail>>

\* -------------------------------------------------------------- CollectOrder
\* the request POST /orders/:id/collect carries
CollectRequest(shop, oid, pin) ==
  [IdleReq EXCEPT !.op = "collect", !.pc = "read", !.shop = shop, !.oid = oid, !.pin = pin]

\* mutant of PinAccepted: a stored hash is enough, the pin is not compared
PinPresentOnly(o, pin) == o.pickupPinHash # NoHash

\* the PIN check of collectOrder
PinAccepted(o, pin) == o.pickupPinHash # NoHash /\ verifyPin(pin, o.pickupPinHash)

\* mutant of BalanceCleared: the balance check is missing
BalanceUnchecked(o) == TRUE

\* the balance check of collectOrder, on the stored balance field
BalanceCleared(o) == ~(o.balance > 0)

\* mutant of CollectChecked: the PIN is verified before the balance is looked at
CollectCheckedPinFirst(q) ==
  IF ~Found(q.oid, q.shop) THEN Done(q, "OrderNotFound")
  ELSE IF orders[q.oid].status # READY THEN Done(q, "NotReady")
  ELSE IF ~PinAccepted(orders[q.oid], q.pin) THEN Done(q, "InvalidPin")
  ELSE IF ~BalanceCleared(orders[q.oid]) THEN Done(q, "OutstandingBalance")
  ELSE [q EXCEPT !.pc = "save", !.snapPaid = orders[q.oid].amountPaid,
                 !.snapBal = orders[q.oid].balance,
                 !.snapHash = orders[q.oid].pickupPinHash]

\* Order.findOne, then status, balance and PIN checks, in this order
CollectChecked(q) ==
  IF ~Found(q.oid, q.shop) THEN Done(q, "OrderNotFound")
  ELSE IF orders[q.oid].status # READY THEN Done(q, "NotReady")
  ELSE IF ~BalanceCleared(orders[q.oid]) THEN Done(q, "OutstandingBalance")
  ELSE IF ~PinAccepted(orders[q.oid], q.pin) THEN Done(q, "InvalidPin")
  ELSE [q EXCEPT !.pc = "save", !.snapPaid = orders[q.oid].amountPaid,
                 !.snapBal = orders[q.oid].balance,
                 !.snapHash = orders[q.oid].pickupPinHash]

\* mutant of CollectAnswered: a failed attempt is not logged
CollectAnsweredUnlogged(q, ok) == [req |-> CollectChecked(q), log |-> auditLog]

\* the checks of collectOrder with the audit call of the PIN check: an attempt with a
\* PIN that does not verify is logged before it is answered
CollectAnswered(q, ok) ==
  LET a == logAudit(auditLog, FAILED_COLLECTION_ATTEMPT, ok) IN
  IF CollectChecked(q).resp # "InvalidPin" THEN [req |-> CollectChecked(q), log |-> auditLog]
  ELSE [req |-> IF a.threw THEN Done(q, "ServerError") ELSE CollectChecked(q), log |-> a.log]

\* POST /orders/:id/collect arrives and runs to the end of its read and checks
CollectRead(r) ==
  \E user \in users, oid \in OrderIdsAsked, pin \in Pins, ok \in SinkOutcomes :
    LET q == CollectRequest(user.shopId, oid, pin)
        answered == CollectAnswered(q, ok)
    IN IssueLogged(r, Routed(user, "POST", q, answered.req),
                   IF Admitted(user, "POST") THEN answered.log ELSE auditLog)

\* the write of collectOrder's order.save()
CollectWrite(o, q, now) ==
  [o EXCEPT !.status = COLLECTED, !.collectedBy = q.shop, !.collectedAt = now,
            !.pickupPinHash = NoHash, !.balance = SavedBalance(o, q)]

\* order.save(), logAudit and the success response
CollectSave(r) ==
  LET q == req[r] IN
  /\ q.op = "collect" /\ q.pc = "save"
  /\ orders' = [orders EXCEPT ![q.oid] = CollectWrite(orders[q.oid], q, started)]
  /\ collects' = [collects EXCEPT ![q.oid] = @ + 1]
  /\ \E ok \in SinkOutcomes :
       LET a == logAudit(auditLog, COLLECT_ORDER, ok) IN
       /\ auditLog' = a.log
       /\ req' = [req EXCEPT ![r] = Done(q, IF a.threw THEN "ServerError" ELSE "Collected")]
  /\ UNCHANGED <<payments, started, issuePaid, shops, users, ignoreUndefined, auditMayFail>>

\* ------------------------------------------------------------ specifications
Next ==
  \/ \E r \in DOMAIN req : CreateRead(r)
  \/ \E r \in DOMAIN req : CreateOrderInsert(r)
  \/ \E r \in DOMAIN req : CreatePaymentInsert(r)
  \/ \E r \in DOMAIN req : CreateCommit(r)
  \/ \E r \in DOMAIN req : PayRead(r)
  \/ \E r \in DOMAIN req : PayIdem(r)
  \/ \E r \in DOMAIN req : PayUpdate(r)
  \/ \E r \in DOMAIN req : PayRecheck(r)
  \/ \E r \in DOMAIN req : PayInsert(r)
  \/ \E r \in DOMAIN req : ReadyRead(r)
  \/ \E r \in DOMAIN req : ReadySave(r)
  \/ \E r \in DOMAIN req : CollectRead(r)
  \/ \E r \in DOMAIN req : CollectSave(r)

Spec == Init /\ [][Next]_vars

\* A batch of up to MaxBatch RecordPayment requests, all issued before any of them runs,
\* on one order of shopA that CreateOrder created with an initial payment of paid and that
\* MarkReady may already have moved to READY.
\* The requests of a batch are issued together and a handler's slot carries
\* no meaning, so a batch is laid out in one order only: by amount, keyed
\* after unkeyed, unused slots last.
BatchRank(q) ==
  IF q.op = "pay"
  THEN 2 * q.amount + (IF q.key = NoKey THEN 0 ELSE 1)
  ELSE 2 * MaxAmount + 2

InitPay ==
  \E total \in 1..MaxTotal, paid \in 0..MaxTotal, ready \in BOOLEAN, pin \in Pins,
     salt \in Salts :
    /\ paid < total
    /\ ready => pin = 1 /\ salt = 1
    /\ LET created == NewOrder(CreateRequest("shopA", "custA", total, paid, NoKey))
           q0 == [IdleReq EXCEPT !.snapPaid = paid, !.snapBal = total - paid]
       IN orders = << IF ready THEN ReadyWrite(created, q0, hashPin(pin, salt)) ELSE created >>
    /\ payments = IF paid > 0
                  THEN << [orderId |-> 1, amount |-> paid, offlineId |-> NoKey] >>
                  ELSE << >>
    /\ issuePaid = paid
    /\ collects = << 0 >>
    /\ req \in [1..MaxBatch ->
                 {IdleReq} \cup {PayRequest("shopA", 1, a, k) :
                                   a \in 1..MaxAmount, k \in Keys \cup {NoKey}}]
    /\ \A r \in 1..(MaxBatch - 1) : BatchRank(req[r]) <= BatchRank(req[r + 1])
    /\ started = Cardinality({r \in 1..MaxBatch : req[r].op = "pay"})
    /\ shops = [s \in Shops |-> ACTIVE]
    /\ users = Staff
    /\ ignoreUndefined = FALSE
    /\ auditLog = NoAudit
    /\ auditMayFail = FALSE

NextPay ==
  \/ \E r \in DOMAIN req : PayReadIssued(r)
  \/ \E r \in DOMAIN req : PayIdem(r)
  \/ \E r \in DOMAIN req : PayUpdate(r)
  \/ \E r \in DOMAIN req : PayRecheck(r)
  \/ \E r \in DOMAIN req : PayInsert(r)

SpecPay == InitPay /\ [][NextPay]_vars

\* A batch of up to MaxBatch keyed CreateOrder and RecordPayment requests of both shops,
\* all issued before any of them runs, on a store that holds one unpaid order per shop:
\* order 1 of shopA, order 2 of shopB. A payment may carry the key of an order or the
\* sub-id of an order's initial payment.
PayKeys == Keys \cup {PayKey(k) : k \in Keys}
OwnOrder(shop) == IF shop = "shopA" THEN 1 ELSE 2
OwnCustomer(shop) == CHOOSE c \in Customers : CustomerShop(c) = shop

KeyBatchRequests ==
  {CreateRequest(shop, OwnCustomer(shop), MaxAmount, paid, k) :
     shop \in Shops, paid \in 0..1, k \in Keys}
  \cup {PayRequest(shop, OwnOrder(shop), a, k) :
          shop \in Shops, a \in 1..MaxAmount, k \in PayKeys}

\* a batch is laid out in one order only: unused slots last
KeyBatchRank(q) ==
  IF q.op = "none" THEN 4 * 3 * (MaxAmount + 1)
  ELSE ((((IF q.op = "create" THEN 0 ELSE 1) * 2 + (IF q.shop = "shopA" THEN 0 ELSE 1)) * 3
         + (IF q.key = NoKey THEN 0 ELSE IF q.key \in Keys THEN 1 ELSE 2))
        * (MaxAmount + 1)) + q.amount

InitKey ==
  /\ orders = << NewOrder(CreateRequest("shopA", "custA", MaxAmount, 0, NoKey)),
                 NewOrder(CreateRequest("shopB", "custB", MaxAmount, 0, NoKey)) >>
  /\ payments = << >>
  /\ collects = << 0, 0 >>
  /\ issuePaid = 0
  /\ req \in [1..MaxBatch -> {IdleReq} \cup KeyBatchRequests]
  /\ \A r \in 1..(MaxBatch - 1) : KeyBatchRank(req[r]) <= KeyBatchRank(req[r + 1])
  /\ started = Cardinality({r \in 1..MaxBatch : req[r].op # "none"})
  /\ shops = [s \in Shops |-> ACTIVE]
  /\ users = Staff
  /\ ignoreUndefined = FALSE
  /\ auditLog = NoAudit
  /\ auditMayFail = FALSE

NextKey ==
  \/ \E r \in DOMAIN req : CreateReadIssued(r)
  \/ \E r \in DOMAIN req : CreateOrderInsert(r)
  \/ \E r \in DOMAIN req : CreatePaymentInsert(r)
  \/ \E r \in DOMAIN req : CreateCommit(r)
  \/ \E r \in DOMAIN req : PayReadIssued(r)
  \/ \E r \in DOMAIN req : PayIdem(r)
  \/ \E r \in DOMAIN req : PayUpdate(r)
  \/ \E r \in DOMAIN req : PayRecheck(r)
  \/ \E r \in DOMAIN req : PayInsert(r)

SpecKey == InitKey /\ [][NextKey]_vars

\* ------------------------------------------------- requests through the gate
\* GET /customers: getCustomers reads the caller's customers and answers
ListRequest(shop) == [IdleReq EXCEPT !.op = "list", !.pc = "read", !.shop = shop]

GetCustomers(r) ==
  \E user \in users :
    LET q == ListRequest(user.shopId)
    IN Issue(r, Routed(user, "GET", q, Done(q, "Served")))

\* updateShopStatus: an administrator sets the subscriptionStatus of a shop document;
\* then logAudit
UpdateShopStatus ==
  /\ started < MaxStarted
  /\ \E s \in {u.shopId : u \in users} \cap Shops, status \in SubscriptionStatus :
       /\ shops[s] \in SubscriptionStatus /\ shops[s] # status
       /\ shops' = [shops EXCEPT ![s] = status]
  /\ \E ok \in SinkOutcomes : auditLog' = logAudit(auditLog, UPDATE_SHOP_STATUS, ok).log
  /\ started' = started + 1
  /\ UNCHANGED <<orders, payments, req, collects, issuePaid, users, ignoreUndefined, auditMayFail>>

\* The principals of one shop under every subscription status: its owner, an employee
\* account that belongs to no shop, and an administrator; GateRequests requests are
\* still to come. The shop
\* record may be missing and its lookup may fail.
GateUsers == {[role |-> OWNER, shopId |-> "shopA"], [role |-> EMPLOYEE, shopId |-> NoShop],
              [role |-> ADMIN, shopId |-> NoShop]}

InitGate ==
  /\ orders = <<>>
  /\ payments = <<>>
  /\ req = [r \in 1..MaxConc |-> IdleReq]
  /\ started = MaxStarted - GateRequests
  /\ collects = <<>>
  /\ issuePaid = 0
  /\ shops \in [Shops -> ShopLookup]
  /\ shops["shopB"] = ACTIVE
  /\ users = GateUsers
  /\ ignoreUndefined \in BOOLEAN
  /\ auditLog = NoAudit
  /\ auditMayFail = FALSE

NextGate ==
  \/ Next
  \/ \E r \in DOMAIN req : GetCustomers(r)
  \/ UpdateShopStatus

SpecGate == InitGate /\ [][NextGate]_vars

\* ------------------------------------------------- an unreliable audit store
\* The requests of Spec with an AuditLog collection that may reject any write;
\* AuditRequests requests are still to come.
InitAudit ==
  /\ orders = <<>>
  /\ payments = <<>>
  /\ req = [r \in 1..MaxConc |-> IdleReq]
  /\ started = MaxStarted - AuditRequests
  /\ collects = <<>>
  /\ issuePaid = 0
  /\ shops = [s \in Shops |-> ACTIVE]
  /\ users = Staff
  /\ ignoreUndefined = FALSE
  /\ auditLog = NoAudit
  /\ auditMayFail = TRUE

SpecAudit == InitAudit /\ [][Next]_vars

\* ------------------------------------------------------ two orders of a shop
\* RecordPayment, MarkReady and CollectOrder requests of the owner of shopA on a store
\* that holds two unpaid orders of shopA; TwoRequests requests are still to come.
InitTwo ==
  /\ orders = << NewOrder(CreateRequest("shopA", "custA", 1, 0, NoKey)),
                 NewOrder(CreateRequest("shopA", "custA", 1, 0, NoKey)) >>
  /\ payments = <<>>
  /\ req = [r \in 1..MaxConc |-> IdleReq]
  /\ started = MaxStarted - TwoRequests
  /\ collects = << 0, 0 >>
  /\ issuePaid = 0
  /\ shops = [s \in Shops |-> ACTIVE]
  /\ users = {[role |-> OWNER, shopId |-> "shopA"]}
  /\ ignoreUndefined = FALSE
  /\ auditLog = NoAudit
  /\ auditMayFail = FALSE

NextTwo ==
  \/ \E r \in DOMAIN req : PayRead(r)
  \/ \E r \in DOMAIN req : PayIdem(r)
  \/ \E r \in DOMAIN req : PayUpdate(r)
  \/ \E r \in DOMAIN req : PayRecheck(r)
  \/ \E r \in DOMAIN req : PayInsert(r)
  \/ \E r \in DOMAIN req : ReadyRead(r)
  \/ \E r \in DOMAIN req : ReadySave(r)
  \/ \E r \in DOMAIN req : CollectRead(r)
  \/ \E r \in DOMAIN req : CollectSave(r)

SpecTwo == InitTwo /\ [][NextTwo]_vars

\* ------------------------------------------------------------------ helpers
OrderIds == 1..Len(orders)
Quiescent == \A r \in DOMAIN req : req[r].pc \in {"idle", "done"}

RECURSIVE SumSeq(_, _)
\* sum of f over the first n payment documents
SumSeq(n, oid) ==
  IF n = 0 THEN 0
  ELSE SumSeq(n - 1, oid) + (IF payments[n].orderId = oid THEN payments[n].amount ELSE 0)
\* sum of the amounts of the payment documents attached to an order
PaidByRecords(oid) == SumSeq(Len(payments), oid)

\* ------------------------------------------------------------------- claims

\* C1: every persisted order satisfies 0 <= amountPaid <= totalAmount, orders created
\* with an initial payment included.
C1_PaidWithinTotal ==
  \A o \in OrderIds : 0 <= orders[o].amountPaid /\ orders[o].amountPaid <= orders[o].totalAmount

\* C2: the stored balance of every order equals totalAmount - amountPaid in every
\* persisted state, also right after RecordPayment's increment.
C2_BalanceDerived ==
  \A o \in OrderIds : orders[o].balance = orders[o].totalAmount - orders[o].amountPaid

\* C3: once every in-flight request has completed, the amounts of an order's payment
\* records sum to the order's amountPaid.
C3_LedgerMatchesRecords ==
  Quiescent => \A o \in OrderIds : PaidByRecords(o) = orders[o].amountPaid

\* the requests of the batch, the sum of their amounts, the balance they were issued on
Batch == {r \in DOMAIN req : req[r].op = "pay"}
RECURSIVE SumAmounts(_)
SumAmounts(S) ==
  IF S = {} THEN 0 ELSE LET r == CHOOSE x \in S : TRUE IN req[r].amount + SumAmounts(S \ {r})
BatchSum == SumAmounts(Batch)
IssueBalance == orders[1].totalAmount - issuePaid
\* payment documents the batch inserted (the initial payment of the order excluded)
BatchRecords == Len(payments) - (IF issuePaid > 0 THEN 1 ELSE 0)

C5_OverBatchBounded ==
  BatchSum > IssueBalance
  => /\ orders[1].amountPaid <= orders[1].totalAmount
     /\ \A r \in Batch : req[r].pc = "done" =>
          /\ ~req[r].applied => req[r].resp \in {"ExceedsBalance", "PaymentSynced"}
          /\ req[r].resp \notin {"PaymentRecorded", "PaymentSynced"} => ~req[r].applied
     /\ Quiescent =>
          BatchRecords = Cardinality({r \in Batch : req[r].resp = "PaymentRecorded"})

\* an _id no order document has
Missing == Len(orders) + 1
\* the same handler state, had the request named another order id
AsIf(q, oid) == [q EXCEPT !.oid = oid]

\* C6: RecordPayment, MarkReady and CollectOrder on an order of another tenant answer
\* exactly as they do for an order id that does not exist (not found), and change neither
\* the order nor the payments.
C6_ForeignAsMissing ==
  /\ \A shop \in Shops, oid \in OrderIds :
       orders[oid].shopId # shop =>
         /\ \A amount \in 0..MaxAmount, key \in Keys \cup {NoKey} :
              /\ PayChecked(PayRequest(shop, oid, amount, key))
                   = AsIf(PayChecked(PayRequest(shop, Missing, amount, key)), oid)
              /\ PayChecked(PayRequest(shop, oid, amount, key)).pc = "done"
         /\ ReadyChecked(ReadyRequest(shop, oid))
              = AsIf(ReadyChecked(ReadyRequest(shop, Missing)), oid)
         /\ ReadyChecked(ReadyRequest(shop, oid)).pc = "done"
         /\ \A pin \in Pins :
              /\ CollectChecked(CollectRequest(shop, oid, pin))
                   = AsIf(CollectChecked(CollectRequest(shop, Missing, pin)), oid)
              /\ CollectChecked(CollectRequest(shop, oid, pin)).pc = "done"
  /\ \A r \in DOMAIN req :
       ( /\ req[r].op \in {"pay", "ready", "collect"}
         /\ Exists(req[r].oid) /\ orders[req[r].oid].shopId # req[r].shop )
       => /\ req[r].pc = "done" /\ ~req[r].applied
          /\ req[r].resp = IF req[r].op = "pay" /\ req[r].amount <= 0
                           THEN "InvalidAmount" ELSE "OrderNotFound"

C6_Witness ==
  \E r \in DOMAIN req :
    /\ req[r].op \in {"pay", "ready", "collect"} /\ req[r].resp = "OrderNotFound"
    /\ Exists(req[r].oid) /\ orders[req[r].oid].shopId # req[r].shop
    /\ orders[req[r].oid].status = READY

\* C7: the status of an order never moves backward in CREATED, PROCESSING, READY,
\* COLLECTED, and never changes once it is COLLECTED.
C7_StatusForwardOnly ==
  [][\A o \in OrderIds :
       /\ Rank(orders'[o].status) >= Rank(orders[o].status)
       /\ orders[o].status = COLLECTED => orders'[o].status = COLLECTED]_vars

\* C8: at most one CollectOrder request succeeds on an order (collectedBy and
\* collectedAt are written by one request only).
C8_SingleCollect ==
  \A o \in OrderIds : collects[o] <= 1

\* C9: an order whose status is COLLECTED is fully paid.
C9_CollectedIsPaid ==
  \A o \in OrderIds :
    orders[o].status = COLLECTED => orders[o].amountPaid >= orders[o].totalAmount

C9_Witness ==
  \E o \in OrderIds :
    /\ orders[o].status = COLLECTED /\ orders[o].totalAmount > 0 /\ collects[o] = 1
    /\ \E i \in 1..Len(payments) : payments[i].orderId = o /\ payments[i].amount < orders[o].totalAmount

\* a CollectOrder handler between its checks and its save
Collecting(r, o) == req[r].op = "collect" /\ req[r].pc = "save" /\ req[r].oid = o

\* C10: every transition of an order to COLLECTED is the save of a CollectOrder request
\* whose pin verified against the pickupPinHash it read from that order; a CollectOrder
\* whose pin does not verify, or that finds no hash, stops before any write.
C10_CollectNeedsPin ==
  /\ [](\A r \in DOMAIN req :
          (req[r].op = "collect" /\ req[r].pc = "save") =>
            req[r].snapHash # NoHash /\ verifyPin(req[r].pin, req[r].snapHash))
  /\ [](\A shop \in Shops, o \in OrderIds, pin \in Pins :
          (orders[o].pickupPinHash = NoHash \/ ~verifyPin(pin, orders[o].pickupPinHash))
            => CollectChecked(CollectRequest(shop, o, pin)).pc = "done")
  /\ [][\A o \in OrderIds :
          (orders[o].status # COLLECTED /\ orders'[o].status = COLLECTED)
            => \E r \in DOMAIN req : Collecting(r, o) /\ req'[r].resp = "Collected"]_vars

C10_Witness ==
  \E r \in DOMAIN req, x \in DOMAIN req :
    /\ req[r].op = "collect" /\ req[r].resp = "Collected"
    /\ orders[req[r].oid].status = COLLECTED
    /\ req[x].op = "collect" /\ req[x].resp = "InvalidPin" /\ req[x].oid = req[r].oid

\* C11: CollectOrder passes its checks on every READY order whose amountPaid equals
\* totalAmount when the pin is the one MarkReady generated, whether the last payment came
\* before or after MarkReady.
C11_PaidReadyCollectable ==
  \A o \in OrderIds, pin \in Pins :
    ( /\ orders[o].status = READY
      /\ orders[o].amountPaid = orders[o].totalAmount
      /\ orders[o].pickupPinHash # NoHash /\ verifyPin(pin, orders[o].pickupPinHash) )
    => CollectChecked(CollectRequest(orders[o].shopId, o, pin)).pc = "save"

\* the CreateOrder requests of a batch
Creates == {r \in DOMAIN req : req[r].op = "create"}
\* the batch is one CreateOrder request submitted several times
SameCreate ==
  /\ Cardinality(Creates) >= 2
  /\ \A r \in DOMAIN req : req[r].op \in {"create", "none"}
  /\ \A r, x \in Creates : req[r].shop = req[x].shop /\ req[r].key = req[x].key

\* C12: CreateOrder submitted twice with the same tenant and key creates at most one
\* order and one initial payment record, and the submission that does not create the
\* order answers 'already synced' with the created order, not an error.
C12_CreateIdempotent ==
  SameCreate =>
    \A r \in Creates :
      /\ Cardinality(OrderWithKey(req[r].key, req[r].shop)) <= 1
      /\ Cardinality(PaymentWithKey(PayKey(req[r].key))) <= 1
      /\ req[r].pc = "done" =>
           /\ req[r].resp \in {"OrderCreated", "OrderSynced"}
           /\ req[r].oid \in OrderWithKey(req[r].key, req[r].shop)

\* C13: a RecordPayment that repeats the tenant, order, amount and key of a recorded
\* payment gets past the status and balance checks to the idempotency check (which
\* answers 'already synced'), whatever the order's state has become.
C13_ResubmitReachesIdem ==
  \A i \in 1..Len(payments) :
    payments[i].offlineId # NoKey =>
      PayChecked(PayRequest(orders[payments[i].orderId].shopId, payments[i].orderId,
                            payments[i].amount, payments[i].offlineId)).pc = "idem"

\* C14: of the concurrent RecordPayment requests of one tenant on one order with the same
\* key and amount, at most one increments amountPaid, and at most one payment record
\* with the key exists.
C14_KeyAppliedOnce ==
  \A k \in Keys, a \in 1..MaxAmount :
    /\ Cardinality({r \in Batch : req[r].key = k /\ req[r].amount = a /\ req[r].applied}) <= 1
    /\ Cardinality(PaymentWithKey(k)) <= 1

\* no two requests of one tenant in the batch use the same key for the same kind of
\* record (an order's key k also names its initial payment PayKey(k))
NoTenantClash ==
  \A r, x \in DOMAIN req :
    (r # x /\ req[r].op # "none" /\ req[x].op # "none" /\ req[r].shop = req[x].shop)
    => /\ req[r].op = req[x].op => req[r].key # req[x].key
       /\ (req[r].op = "create" /\ req[x].op = "pay") => req[x].key # PayKey(req[r].key)

\* C15: a key that only another tenant's order or payment carries never makes
\* CreateOrder or RecordPayment answer with that tenant's record, and never makes the
\* request fail on the key: it runs as if the key were unused.
C15_ForeignKeyUnused ==
  NoTenantClash =>
    \A r \in DOMAIN req :
      (req[r].pc = "done" /\ req[r].key # NoKey) =>
        /\ req[r].resp = "OrderSynced" => orders[req[r].oid].shopId = req[r].shop
        /\ req[r].resp = "PaymentSynced" =>
             \E i \in PaymentWithKey(req[r].key) :
               orders[payments[i].orderId].shopId = req[r].shop
        /\ req[r].resp \notin {"DuplicateKey", "WriteConflict"}

\* C16: keys are unique per tenant: whatever keys the other tenant uses, a finished
\* CreateOrder has created the caller's own order with its key, and a RecordPayment
\* whose increment was applied has inserted the caller's payment record with its key.
C16_KeysPerTenant ==
  NoTenantClash =>
    \A r \in DOMAIN req :
      req[r].pc = "done" =>
        /\ req[r].op = "create" =>
             /\ req[r].resp = "OrderCreated"
             /\ \E o \in OrderIds : orders[o].shopId = req[r].shop
                                    /\ orders[o].offlineId = req[r].key
        /\ (req[r].op = "pay" /\ req[r].applied) =>
             /\ req[r].resp = "PaymentRecorded"
             /\ \E i \in PaymentWithKey(req[r].key) :
                  payments[i].orderId = req[r].oid /\ payments[i].amount = req[r].amount

RECURSIVE PaidIn(_, _)
\* sum of the amounts of the payment documents in pays that are attached to order oid
PaidIn(pays, oid) ==
  IF pays = <<>> THEN 0
  ELSE (IF Head(pays).orderId = oid THEN Head(pays).amount ELSE 0) + PaidIn(Tail(pays), oid)

\* a CreateOrder handler inside its transaction
InTransaction(r) == req[r].op = "create" /\ req[r].pc \in {"payment", "commit"}

\* C17: CreateOrder is all-or-nothing. Every payment record belongs to a visible order;
\* an order never becomes visible without its initial payment record, nor while its
\* transaction is open; a CreateOrder that answers an error leaves orders and payments
\* as they were.
C17_CreateAllOrNothing ==
  /\ [](\A i \in 1..Len(payments) : payments[i].orderId \in OrderIds)
  /\ [](\A r \in DOMAIN req :
          (InTransaction(r) /\ req[r].key # NoKey)
            => \A o \in OrderIds : orders[o].offlineId # req[r].key)
  /\ [][Len(orders') > Len(orders) =>
          /\ Len(orders') = Len(orders) + 1
          /\ PaidIn(payments', Len(orders')) = orders'[Len(orders')].amountPaid]_vars
  /\ [][\A r \in DOMAIN req :
          (req[r].op = "create" /\ req[r].pc # "done" /\ req'[r].pc = "done"
             /\ req'[r].resp # "OrderCreated")
            => orders' = orders /\ payments' = payments]_vars

\* the payment insert of a transaction failed after its order insert had succeeded, and
\* no order with the key is stored
C17_Witness ==
  \E r \in DOMAIN req :
    /\ req[r].op = "create" /\ req[r].resp = "DuplicateKey"
    /\ PaymentWithKey(PayKey(req[r].key)) # {}
    /\ \A o \in OrderIds : orders[o].offlineId # req[r].key
    /\ \A x \in DOMAIN req : req[x].op = "create" => req[x].pc = "done"

\* C18: when the payment insert of RecordPayment fails after the conditional update
\* was applied, the request answers an error and the increment is taken back (the
\* code keeps no reconciliation record).
C18_FailedInsertReversed ==
  [][\A r \in DOMAIN req :
       (req[r].op = "pay" /\ req[r].pc = "insert" /\ req'[r].pc = "done"
          /\ req'[r].resp # "PaymentRecorded")
         => orders'[req[r].oid].amountPaid = orders[req[r].oid].amountPaid - req[r].amount]_vars

\* the operations that change state
Mutating == {"create", "pay", "ready", "collect"}
\* the slot the next request is issued on
Arriving(r) == Free(r) /\ started' = started + 1 /\ shops' = shops

Successes == {"OrderCreated", "OrderSynced", "PaymentRecorded", "PaymentSynced",
              "MarkedReady", "Collected"}
\* the tenant of a principal cannot be established as ACTIVE
Unestablished(shop) == shop = NoShop \/ shops[shop] \in {MISSING, LOOKUP_ERROR}

Finishes(r) == req[r].pc \notin {"idle", "done"} /\ req'[r].pc = "done"

\* C21: whether AuditLog.create accepts or rejects, the step that makes the last write of
\* CreateOrder, RecordPayment, MarkReady or CollectOrder writes the orders and payments
\* and answers success, and a CollectOrder with a wrong PIN is answered the same.
C21_AuditFailureInvisible ==
  /\ [](\A shop \in Shops, o \in OrderIds, pin \in Pins :
          CollectAnswered(CollectRequest(shop, o, pin), TRUE).req
            = CollectAnswered(CollectRequest(shop, o, pin), FALSE).req)
  /\ [][\A r \in DOMAIN req :
          Finishes(r) =>
            /\ req[r].pc = "commit" =>
                 /\ req'[r].resp = "OrderCreated"
                 /\ orders' = Append(orders, NewOrder(req[r]))
                 /\ Len(payments') = Len(payments) + (IF req[r].amount > 0 THEN 1 ELSE 0)
            /\ (req[r].pc = "insert" /\ (req[r].key = NoKey \/ PaymentWithKey(req[r].key) = {})) =>
                 /\ req'[r].resp = "PaymentRecorded"
                 /\ Len(payments') = Len(payments) + 1 /\ orders' = orders
            /\ (req[r].op = "ready" /\ req[r].pc = "save") =>
                 /\ req'[r].resp = "MarkedReady"
                 /\ orders'[req[r].oid].status = READY /\ payments' = payments
            /\ (req[r].op = "collect" /\ req[r].pc = "save") =>
                 /\ req'[r].resp = "Collected"
                 /\ orders'[req[r].oid].status = COLLECTED /\ payments' = payments]_vars

\* an order was created, marked ready and collected while every audit write was rejected
C21_Witness ==
  /\ \E r \in DOMAIN req : req[r].op = "collect" /\ req[r].resp = "Collected"
                           /\ orders[req[r].oid].status = COLLECTED
  /\ auditLog = NoAudit

\* C22: a successful MarkReady carries the plaintext PIN in its result, and the result of
\* no other request carries one.
C22_PinHandedOnce ==
  \A r \in DOMAIN req :
    req[r].pc = "done" =>
      IF req[r].op = "ready" /\ req[r].resp = "MarkedReady"
      THEN req[r].respPin \in Pins
      ELSE req[r].respPin = 0

\* C23: an order has a stored pickupPinHash if and only if its status is READY.
C23_HashIffReady ==
  \A o \in OrderIds : (orders[o].pickupPinHash # NoHash) <=> (orders[o].status = READY)

\* C24: every status change of an order goes to the immediate successor of its status in
\* CREATED, PROCESSING, READY, COLLECTED.
C24_NoSkipping ==
  [][\A o \in OrderIds :
       orders'[o].status # orders[o].status
         => Rank(orders'[o].status) = Rank(orders[o].status) + 1]_vars

\* C25: the order CreateOrder makes visible has status PROCESSING when the request's
\* amountPaid is > 0 and CREATED otherwise, and an initial payment record of the order's
\* amountPaid is inserted exactly when that amount is > 0.
C25_CreateStatusAndPayment ==
  [][\A r \in DOMAIN req :
       (req[r].op = "create" /\ Finishes(r) /\ req'[r].resp = "OrderCreated")
         => /\ Len(orders') = Len(orders) + 1 /\ req'[r].oid = Len(orders')
            /\ orders'[Len(orders')].status
                 = (IF req[r].amount > 0 THEN PROCESSING ELSE CREATED)
            /\ orders'[Len(orders')].amountPaid = req[r].amount
            /\ IF req[r].amount > 0
               THEN /\ Len(payments') = Len(payments) + 1
                    /\ payments'[Len(payments')].orderId = Len(orders')
                    /\ payments'[Len(payments')].amount = orders'[Len(orders')].amountPaid
               ELSE payments' = payments]_vars

\* an order was created with an initial payment: it is PROCESSING and has its record
C25_Witness ==
  \E r \in DOMAIN req :
    /\ req[r].op = "create" /\ req[r].resp = "OrderCreated"
    /\ orders[req[r].oid].status = PROCESSING
    /\ \E i \in PaymentWithKey(PayKey(req[r].key)) :
         payments[i].orderId = req[r].oid /\ payments[i].amount > 0

\* C26: the write of a RecordPayment that increments amountPaid moves the status from
\* CREATED to PROCESSING and leaves any other status, and the pickupPinHash, as they are
\* at that write.
C26_PaymentStatusFrame ==
  [][\A r \in DOMAIN req :
       (req[r].op = "pay" /\ req[r].pc = "update" /\ req'[r].pc = "insert")
         => /\ orders'[req[r].oid].status
                 = (IF orders[req[r].oid].status = CREATED THEN PROCESSING
                    ELSE orders[req[r].oid].status)
            /\ orders'[req[r].oid].pickupPinHash = orders[req[r].oid].pickupPinHash]_vars

\* C27: at most one MarkReady request succeeds on an order, and a MarkReady on an order
\* that is READY or COLLECTED is answered with an invalid-transition error.
C27_SingleMarkReady ==
  /\ \A o \in OrderIds :
       Cardinality({r \in DOMAIN req : req[r].op = "ready" /\ req[r].oid = o
                                       /\ req[r].resp = "MarkedReady"}) <= 1
  /\ \A o \in OrderIds :
       orders[o].status \in {READY, COLLECTED}
         => ReadyChecked(ReadyRequest(orders[o].shopId, o)).resp = "InvalidTransition"

\* C28: CollectOrder checks in the order not found, not READY, outstanding balance, PIN:
\* on a READY order with balance > 0 it answers OutstandingBalance whatever the PIN, and
\* the AuditLog is not written.
C28_CollectCheckOrder ==
  \A shop \in Shops, o \in 1..(Len(orders) + 1), pin \in Pins, ok \in BOOLEAN :
    LET a == CollectAnswered(CollectRequest(shop, o, pin), ok) IN
    /\ ~Found(o, shop) => a.req.resp = "OrderNotFound"
    /\ (Found(o, shop) /\ orders[o].status # READY) => a.req.resp = "NotReady"
    /\ (Found(o, shop) /\ orders[o].status = READY /\ orders[o].balance > 0)
         => a.req.resp = "OutstandingBalance" /\ a.log = auditLog
    /\ a.req.resp = "InvalidPin"
         => Found(o, shop) /\ orders[o].status = READY /\ ~(orders[o].balance > 0)

\* a CollectOrder with a PIN that does not verify was answered OutstandingBalance on a
\* READY order, and no failed attempt is logged
C28_Witness ==
  \E r \in DOMAIN req :
    /\ req[r].op = "collect" /\ req[r].resp = "OutstandingBalance"
    /\ orders[req[r].oid].status = READY /\ orders[req[r].oid].balance > 0
    /\ ~verifyPin(req[r].pin, orders[req[r].oid].pickupPinHash)
    /\ auditLog[FAILED_COLLECTION_ATTEMPT] = 0

\* the answers that reject a MarkReady or a CollectOrder
Rejections == {"OrderNotFound", "InvalidTransition", "NotReady", "OutstandingBalance",
               "InvalidPin"}

\* C29: the step that rejects a MarkReady or CollectOrder changes no order and no
\* payment; a rejection for an invalid PIN adds one FAILED_COLLECTION_ATTEMPT document to
\* the AuditLog and nothing else, any other rejection adds nothing.
C29_RejectionFrame ==
  [][\A r \in DOMAIN req :
       (req'[r] # req[r] /\ req'[r].op \in {"ready", "collect"} /\ req'[r].pc = "done"
          /\ req'[r].resp \in Rejections)
         => /\ orders' = orders /\ payments' = payments
            /\ auditLog' = IF req'[r].resp = "InvalidPin"
                           THEN [auditLog EXCEPT ![FAILED_COLLECTION_ATTEMPT] = @ + 1]
                           ELSE auditLog]_vars

\* a CollectOrder with a wrong PIN was rejected: the attempt is logged, the order is
\* still READY with its hash, and no collection is logged
C29_Witness ==
  \E r \in DOMAIN req :
    /\ req[r].op = "collect" /\ req[r].resp = "InvalidPin"
    /\ orders[req[r].oid].status = READY /\ orders[req[r].oid].pickupPinHash # NoHash
    /\ auditLog[FAILED_COLLECTION_ATTEMPT] = 1 /\ auditLog[COLLECT_ORDER] = 0

C31_InvalidAmountRejected ==
  /\ [](\A i \in 1..Len(payments) : payments[i].amount > 0)
  /\ [](\A shop \in Shops, o \in 1..(Len(orders) + 1), raw \in RawAmounts, key \in Keys \cup {NoKey} :
          (Number(raw).nan \/ Number(raw).value <= 0) =>
            PayChecked([PayRequest(shop, o, Number(raw).value, key)
                          EXCEPT !.nan = Number(raw).nan]).resp = "InvalidAmount")
  /\ [][\A r \in DOMAIN req :
          (req'[r] # req[r] /\ req'[r].op = "pay"
             /\ (req'[r].nan \/ req'[r].amount <= 0))
            => /\ req'[r].pc = "done" /\ req'[r].resp = "InvalidAmount"
               /\ orders' = orders /\ payments' = payments]_vars

\* requests with a negative amount and with text for an amount were rejected on an
\* order that has a balance to pay
C31_Witness ==
  \E r \in DOMAIN req, x \in DOMAIN req :
    /\ req[r].op = "pay" /\ req[r].nan /\ req[r].resp = "InvalidAmount"
    /\ req[x].op = "pay" /\ req[x].amount < 0 /\ req[x].resp = "InvalidAmount"
    /\ Found(req[r].oid, req[r].shop) /\ Found(req[x].oid, req[x].shop)
    /\ orders[req[r].oid].amountPaid < orders[req[r].oid].totalAmount

\* the balance of an order as recordPayment computes it
Remaining(o) == orders[o].totalAmount - orders[o].amountPaid

\* C32 as stated: RecordPayment with an amount above the remaining balance of the order
\* answers ExceedsBalance.
C32_ExceedingAlwaysExceedsBalance ==
  \A o \in OrderIds, a \in 1..(MaxAmount + 1) :
    a > Remaining(o) =>
      PayChecked(PayRequest(orders[o].shopId, o, a, NoKey)).resp = "ExceedsBalance"

\* C32 amended: on an order that is not COLLECTED, RecordPayment with an amount above
\* the remaining balance answers ExceedsBalance; an update whose amount is above the
\* balance at the write matches nothing; and a request answered ExceedsBalance changed
\* no order and no payment.
C32_ExceedingRejected ==
  /\ [](\A o \in OrderIds, a \in 1..(MaxAmount + 1) :
          (a > Remaining(o) /\ orders[o].status # COLLECTED) =>
            PayChecked(PayRequest(orders[o].shopId, o, a, NoKey)).resp = "ExceedsBalance")
  /\ [](\A r \in DOMAIN req : req[r].resp = "ExceedsBalance" => ~req[r].applied)
  /\ [][\A r \in DOMAIN req :
          /\ (req[r].op = "pay" /\ req[r].pc = "update" /\ req'[r] # req[r]
                /\ req[r].amount > Remaining(req[r].oid))
               => req'[r].pc = "recheck" /\ orders' = orders /\ payments' = payments
          /\ (req'[r] # req[r] /\ req'[r].resp = "ExceedsBalance")
               => orders' = orders /\ payments' = payments]_vars

\* a payment above what remains of a partly paid order was answered ExceedsBalance
C32_Witness ==
  \E r \in DOMAIN req :
    /\ req[r].op = "pay" /\ req[r].resp = "ExceedsBalance"
    /\ Found(req[r].oid, req[r].shop) /\ orders[req[r].oid].status # COLLECTED
    /\ orders[req[r].oid].amountPaid > 0
    /\ Remaining(req[r].oid) > 0 /\ req[r].amount > Remaining(req[r].oid)

\* C33: an update of RecordPayment that runs while the order is COLLECTED matches
\* nothing, and while an order is COLLECTED its amountPaid and its payment records do
\* not change.
C33_NoPaymentOnceCollected ==
  [][\A o \in OrderIds :
       orders[o].status = COLLECTED =>
         /\ orders'[o].amountPaid = orders[o].amountPaid
         /\ PaidIn(payments', o) = PaidIn(payments, o)]_vars

\* C34: no step lowers the amountPaid of an order.
C34_PaidMonotone ==
  [][\A o \in OrderIds : orders'[o].amountPaid >= orders[o].amountPaid]_vars

\* a MarkReady is about to save a document it loaded before a payment was applied
C34_Witness ==
  \E r \in DOMAIN req :
    /\ req[r].op \in {"ready", "collect"} /\ req[r].pc = "save"
    /\ req[r].snapPaid < orders[req[r].oid].amountPaid

\* C35: no step changes the tenant, customer, totalAmount or key of a stored order,
\* removes an order, or changes or removes a stored payment record.
C35_CreationFieldsFixed ==
  [][/\ Len(orders') >= Len(orders)
     /\ \A o \in OrderIds :
          /\ orders'[o].shopId = orders[o].shopId
          /\ orders'[o].customerId = orders[o].customerId
          /\ orders'[o].totalAmount = orders[o].totalAmount
          /\ orders'[o].offlineId = orders[o].offlineId
     /\ Len(payments') >= Len(payments)
     /\ SubSeq(payments', 1, Len(payments)) = payments]_vars

\* an order went through payment, MarkReady and CollectOrder
C35_Witness ==
  \E o \in OrderIds :
    /\ orders[o].status = COLLECTED /\ orders[o].collectedBy # ""
    /\ orders[o].amountPaid = orders[o].totalAmount
    /\ Len(payments) >= 2

\* C36: the customer of every stored order belongs to the order's tenant; CreateOrder
\* for a customer id that no document has, or that another tenant's document has,
\* answers CustomerNotFound, and that step creates no order and no payment.
C36_CustomerOfTenant ==
  /\ [](\A o \in OrderIds : /\ orders[o].customerId \in Customers
                            /\ CustomerShop(orders[o].customerId) = orders[o].shopId)
  /\ [](\A shop \in Shops, c \in Customers \cup {NoCustomer}, key \in Keys \cup {NoKey} :
          (c \notin Customers \/ CustomerShop(c) # shop) =>
            CreateChecked(CreateRequest(shop, c, 1, 0, key)).resp = "CustomerNotFound")
  /\ [][\A r \in DOMAIN req :
          (req'[r] # req[r] /\ req'[r].resp = "CustomerNotFound")
            => orders' = orders /\ payments' = payments]_vars

\* a CreateOrder was answered CustomerNotFound and nothing is stored
C36_Witness ==
  \E r \in DOMAIN req :
    /\ req[r].op = "create" /\ req[r].resp = "CustomerNotFound" /\ req[r].shop \in Shops
    /\ orders = <<>> /\ payments = <<>>

\* several concurrent requests of one amount without keys whose amounts together fit
\* the balance, all answered
EqualBatchDone ==
  /\ Cardinality(Batch) >= 2
  /\ \A r, x \in Batch : req[r].amount = req[x].amount
  /\ \A r \in Batch : req[r].key = NoKey /\ req[r].pc = "done"
  /\ BatchSum <= IssueBalance

PaymentsOf(pays, o) == SelectSeq(pays, LAMBDA p : p.orderId = o)

====
